---- MODULE Spec2Model ----
\* Smart Form Filler backend: the field extractor and verifier (gemini.py),
\* the template filler (pdf_fill.py) and the /process and /fill requests
\* that share the uploads directory (main.py, utils.py).
\*
\* Strings are sequences of one-character strings.  The model's response text
\* is a sequence of lexemes (records [k, s]): JSON punctuation, JSON scalars,
\* white space, the code-fence marker and bare words.
EXTENDS Integers, Sequences, FiniteSets, TLC

VARIABLES
    apiKey,      \* gemini.API_KEY is set (module state, read once at import)
    pc,          \* position inside extract_fields_with_gemini
    raw_text,    \* the argument of extract_fields_with_gemini
    response,    \* response.text as the external model gave it
    text,        \* the local variable text
    parsed,      \* what json.loads gave, before the verifier ran
    data,        \* the local variable data / the returned mapping
    exc,         \* the exception that left the function, "" when none
    outcome,     \* what the external model step did in this call
    gpc,         \* position inside generate_filled_pdf
    gfields,     \* its argument fields
    gtemplate,   \* the file at template_path
    gdoc,        \* the document it builds
    gwrites,     \* the (label, value) pairs handed to page.insert_text
    fs,          \* the uploads directory: file name -> content
    served,      \* the /fill requests answered so far: name returned, content generated
    uploaded     \* the files saved by /process so far: name, content

evars == <<apiKey, pc, raw_text, response, text, parsed, data, exc, outcome>>
gvars == <<gpc, gfields, gtemplate, gdoc, gwrites>>
fvars == <<fs, served, uploaded>>
vars == <<apiKey, pc, raw_text, response, text, parsed, data, exc, outcome,
          gpc, gfields, gtemplate, gdoc, gwrites, fs, served, uploaded>>

\* ------------------------------------------------------------------ bounds
MaxTextLen == 3
MaxValLen == 2
MaxPageLines == 2
MaxUploads == 2
MaxFills == 2

\* ------------------------------------------------------------- characters
Letters == {"a", "A"}
Whitespace == {" ", "\n"}
Chars == Letters \cup Whitespace

StringsUpTo(n) == UNION {[1..k -> Chars] : k \in 0..n}

\* ------------------------------------------------------- Python str methods
\* str.lower() on the letters the inputs use
PyLowerChar(c) ==
    CASE c = "A" -> "a"
      [] c = "J" -> "j"
      [] c = "S" -> "s"
      [] c = "T" -> "t"
      [] OTHER -> c

PyLower(s) == [i \in 1..Len(s) |-> PyLowerChar(s[i])]

RECURSIVE PySplitFrom(_, _, _)
\* s.split(): the maximal runs of non-white-space characters, in order.
\* i is the next position, word the run being read.
PySplitFrom(s, i, word) ==
    IF i > Len(s)
    THEN IF word = <<>> THEN <<>> ELSE <<word>>
    ELSE IF s[i] \in Whitespace
         THEN IF word = <<>>
              THEN PySplitFrom(s, i + 1, <<>>)
              ELSE <<word>> \o PySplitFrom(s, i + 1, <<>>)
         ELSE PySplitFrom(s, i + 1, Append(word, s[i]))

PySplit(s) == PySplitFrom(s, 1, <<>>)

RECURSIVE PyJoin(_, _)
\* sep.join(parts)
PyJoin(sep, parts) ==
    IF parts = <<>> THEN <<>>
    ELSE IF Len(parts) = 1 THEN parts[1]
    ELSE parts[1] \o sep \o PyJoin(sep, Tail(parts))

\* sub in s
PyIn(sub, s) ==
    \E i \in 0..(Len(s) - Len(sub)) : SubSeq(s, i + 1, i + Len(sub)) = sub

\* " ".join(x.lower().split())
NormalizeNoLower(s) == PyJoin(<<" ">>, PySplit(s))

Normalize(s) == PyJoin(<<" ">>, PySplit(PyLower(s)))

\* ------------------------------------------------------------ JSON values
\* A JSON value as Python holds it after json.loads: None, a str, a number,
\* a list or a dict.  The verifier looks inside strings only, so the content
\* of a nested list or dict is not kept.
Tok(k) == [k |-> k, s |-> <<>>]
Str(s) == [k |-> "str", s |-> s]
Num(d) == [k |-> "num", s |-> d]
None == Tok("null")
ListValue == Tok("list")
DictValue == Tok("dict")

\* isinstance(val, str)
IsStr(val) == val.k = "str"

KEYS == << <<"name">>, <<"dob">>, <<"address">>, <<"phone">>, <<"email">> >>
KeySet == {KEYS[i] : i \in 1..Len(KEYS)}
RawTextKey == <<"raw_text">>
ErrorKey == <<"_error">>
RawOutputKey == <<"_raw_model_output">>

\* Python dict: d.get(k), d[k] = v, a dict literal from key/value pairs
EmptyDict == [k \in {} |-> None]
DictGet(d, k) == IF k \in DOMAIN d THEN d[k] ELSE None
DictSet(d, k, v) == [x \in (DOMAIN d) \cup {k} |-> IF x = k THEN v ELSE d[x]]
DictOf(pairs) ==
    LET keys == {pairs[i].key : i \in 1..Len(pairs)}
        last(k) == CHOOSE i \in 1..Len(pairs) :
                      /\ pairs[i].key = k
                      /\ \A j \in 1..Len(pairs) : pairs[j].key = k => j <= i
    IN [k \in keys |-> pairs[last(k)].val]

\* ---------------------------------------------------- text of the response
IsWs(tok) == tok.k \in {"sp", "nl"}

RECURSIVE LStrip(_)
LStrip(t) == IF t # <<>> /\ IsWs(Head(t)) THEN LStrip(Tail(t)) ELSE t

RECURSIVE RStrip(_)
RStrip(t) ==
    IF t # <<>> /\ IsWs(t[Len(t)]) THEN RStrip(SubSeq(t, 1, Len(t) - 1)) ELSE t

\* text.strip()
PyStrip(t) == RStrip(LStrip(t))

\* text.startswith of the three-backtick fence marker
StartsWithFence(t) == t # <<>> /\ Head(t).k = "fence"

RECURSIVE SplitLines(_)
\* text.splitlines(): a final line terminator opens no further line
SplitLines(t) ==
    IF t = <<>> THEN <<>>
    ELSE IF \E j \in 1..Len(t) : t[j].k = "nl"
         THEN LET j == CHOOSE j \in 1..Len(t) :
                          /\ t[j].k = "nl"
                          /\ \A i \in 1..(j - 1) : t[i].k # "nl"
              IN <<SubSeq(t, 1, j - 1)>> \o SplitLines(SubSeq(t, j + 1, Len(t)))
         ELSE <<t>>

\* the characters a lexeme stands for
Render1(tok) ==
    IF tok.k = "str" THEN <<"dquote">> \o tok.s \o <<"dquote">>
    ELSE IF tok.k \in {"num", "word"} THEN tok.s
    ELSE IF tok.k = "sp" THEN <<" ">>
    ELSE IF tok.k = "nl" THEN <<"\n">>
    ELSE IF tok.k = "fence" THEN <<"fence">>
    ELSE <<tok.k>>

RECURSIVE Render(_)
Render(t) == IF t = <<>> THEN <<>> ELSE Render1(Head(t)) \o Render(Tail(t))

\* ------------------------------------------------------------- json.loads
ParseFail == [ok |-> FALSE, next |-> 0, val |-> None, pairs |-> <<>>]
ParseOk(n, v, p) == [ok |-> TRUE, next |-> n, val |-> v, pairs |-> p]

RECURSIVE ParseValue(_, _)
RECURSIVE ParseElems(_, _)
RECURSIVE ParseMembers(_, _, _)

\* one JSON value starting at lexeme i
ParseValue(t, i) ==
    IF i > Len(t) THEN ParseFail
    ELSE IF t[i].k \in {"null", "str", "num"} THEN ParseOk(i + 1, t[i], <<>>)
    ELSE IF t[i].k = "["
         THEN IF i + 1 <= Len(t) /\ t[i + 1].k = "]"
              THEN ParseOk(i + 2, ListValue, <<>>)
              ELSE ParseElems(t, i + 1)
    ELSE IF t[i].k = "{"
         THEN IF i + 1 <= Len(t) /\ t[i + 1].k = "}"
              THEN ParseOk(i + 2, DictValue, <<>>)
              ELSE ParseMembers(t, i + 1, <<>>)
    ELSE ParseFail

\* the elements of an array, i at the start of an element
ParseElems(t, i) ==
    LET r == ParseValue(t, i)
    IN IF ~r.ok \/ r.next > Len(t) THEN ParseFail
       ELSE IF t[r.next].k = "," THEN ParseElems(t, r.next + 1)
       ELSE IF t[r.next].k = "]" THEN ParseOk(r.next + 1, ListValue, <<>>)
       ELSE ParseFail

\* the members of an object, i at the start of a member
ParseMembers(t, i, acc) ==
    IF i + 2 > Len(t) \/ t[i].k # "str" \/ t[i + 1].k # ":" THEN ParseFail
    ELSE LET r == ParseValue(t, i + 2)
             acc2 == Append(acc, [key |-> t[i].s, val |-> r.val])
         IN IF ~r.ok \/ r.next > Len(t) THEN ParseFail
            ELSE IF t[r.next].k = "," THEN ParseMembers(t, r.next + 1, acc2)
            ELSE IF t[r.next].k = "}" THEN ParseOk(r.next + 1, DictValue, acc2)
            ELSE ParseFail

\* json.loads(text): ok = FALSE stands for json.JSONDecodeError.  White space
\* between lexemes is skipped; the whole text must be one value.
JsonLoads(t) ==
    LET u == SelectSeq(t, LAMBDA tok : ~IsWs(tok))
        r == ParseValue(u, 1)
    IN IF r.ok /\ r.next = Len(u) + 1
       THEN [ok |-> TRUE, isdict |-> u[1].k = "{", dict |-> DictOf(r.pairs), val |-> r.val]
       ELSE [ok |-> FALSE, isdict |-> FALSE, dict |-> EmptyDict, val |-> None]

\* ------------------------------------------- extract_fields_with_gemini
\* _enforce_substring_constraints: the body of the loop for one key
EnforceKey(d, key, ocr_norm) ==
    LET val == DictGet(d, key)
    IN IF IsStr(val)
       THEN LET val_norm == Normalize(val.s)
            IN IF val_norm # <<>> /\ ~PyIn(val_norm, ocr_norm)
               THEN DictSet(d, key, None)
               ELSE d
       ELSE d

RECURSIVE EnforceFrom(_, _, _)
EnforceFrom(d, i, ocr_norm) ==
    IF i > Len(KEYS) THEN d
    ELSE EnforceFrom(EnforceKey(d, KEYS[i], ocr_norm), i + 1, ocr_norm)

\* _enforce_substring_constraints(data, raw_text), data a dict
EnforceSubstringConstraints(d, raw) == EnforceFrom(d, 1, Normalize(raw))

\* the mapping returned when the request fails
ErrorResultNormalisedText(raw, e) ==
    [k \in KeySet \cup {RawTextKey, ErrorKey} |->
        IF k = RawTextKey THEN Str(Normalize(raw))
        ELSE IF k = ErrorKey THEN Str(<<"Gemini request failed: ", e>>)
        ELSE None]

ErrorResult(raw, e) ==
    [k \in KeySet \cup {RawTextKey, ErrorKey} |->
        IF k = RawTextKey THEN Str(raw)
        ELSE IF k = ErrorKey THEN Str(<<"Gemini request failed: ", e>>)
        ELSE None]

\* the fallback mapping built on json.JSONDecodeError
FallbackData(t) ==
    [k \in KeySet \cup {RawOutputKey} |->
        IF k = RawOutputKey THEN Str(Render(t)) ELSE None]

\* the code-fence step
StripFences(t) ==
    IF StartsWithFence(t)
    THEN LET lines == SplitLines(t)
         IN IF Len(lines) >= 3
            THEN PyJoin(<<Tok("nl")>>, SubSeq(lines, 2, Len(lines) - 1))
            ELSE t
    ELSE t

\* json.loads with the except clause
LoadOrFallback(t) ==
    LET r == JsonLoads(t)
    IN IF r.ok THEN [isdict |-> r.isdict, dict |-> r.dict, val |-> r.val]
       ELSE [isdict |-> TRUE, dict |-> FallbackData(t), val |-> DictValue]

\* everything after the request answered: lines 66 and 80-103 as one function
ExtractAnswer(r, raw) ==
    LET d == LoadOrFallback(StripFences(PyStrip(r)))
    IN IF d.isdict
       THEN [pc |-> "returned", exc |-> "",
             data |-> DictSet(EnforceSubstringConstraints(d.dict, raw),
                              RawTextKey, Str(raw))]
       ELSE [pc |-> "raised", exc |-> "AttributeError", data |-> EmptyDict]

\* ------------------------------------------------------------ the inputs
\* the worked example: source text, and the name and date the model returns
ExampleText ==
    <<"J", "o", "h", "n", " ", "S", "m", "i", "t", "h", " ", "l", "i", "v", "e", "s",
      " ", "i", "n", " ", "T", "e", "x", "a", "s">>
ExampleName == <<"J", "o", "h", "n", " ", "S", "m", "i", "t", "h">>
ExampleDob == <<"1", "9", "9", "0", "-", "0", "1", "-", "0", "1">>

Texts == StringsUpTo(MaxTextLen) \cup {ExampleText}

SP == Tok("sp")
NL == Tok("nl")
FENCE == Tok("fence")
Word(w) == [k |-> "word", s |-> <<w>>]

\* the lexemes of a value inside the response
NullForm == <<Tok("null")>>
StrForm(s) == <<Str(s)>>
NumForm == <<Num(<<"7">>)>>
ListForm == <<Tok("["), Tok("]")>>
ObjForm == <<Tok("{"), Tok("}")>>

ValueForms ==
    {NullForm, NumForm, ListForm, ObjForm} \cup {StrForm(s) : s \in StringsUpTo(MaxValLen)}
SmallForms == {NullForm, NumForm, StrForm(<<"a">>)}

Member(key, form) == <<Str(key), Tok(":"), SP>> \o form
Object(members, sep) ==
    <<Tok("{")>> \o PyJoin(<<Tok(",")>> \o sep, members) \o <<Tok("}")>>

\* the five-key object the prompt asks for, f giving each key's value
SchemaMembers(f) == [i \in 1..Len(KEYS) |-> Member(KEYS[i], f[KEYS[i]])]
SchemaObject(f) == Object(SchemaMembers(f), <<SP>>)
PrettyObject(f) ==
    <<Tok("{"), NL>> \o PyJoin(<<Tok(","), NL>>, SchemaMembers(f)) \o <<NL, Tok("}")>>

OneField(key, form) == [k \in KeySet |-> IF k = key THEN form ELSE NullForm]

ExampleResponse ==
    SchemaObject([k \in KeySet |->
        IF k = <<"name">> THEN StrForm(ExampleName)
        ELSE IF k = <<"dob">> THEN StrForm(ExampleDob)
        ELSE NullForm])

SchemaResponses ==
    {SchemaObject(OneField(key, form)) : key \in KeySet, form \in ValueForms}
      \cup {SchemaObject(f) : f \in [KeySet -> SmallForms]}
      \cup {ExampleResponse}

OffSchemaResponses ==
    { Object(<<>>, <<SP>>),
      Object(<<Member(<<"name">>, StrForm(<<"a">>))>>, <<SP>>),
      Object(Append(SchemaMembers(OneField(<<"name">>, StrForm(<<"a">>))),
                    Member(<<"ssn">>, StrForm(<<"a">>))), <<SP>>),
      Object(SchemaMembers(OneField(<<"name">>, NullForm))
               \o <<Member(RawTextKey, StrForm(<<"A">>)),
                    Member(ErrorKey, StrForm(<<"a">>))>>, <<SP>>),
      Object(<<Member(<<"name">>, StrForm(<<"a">>)),
               Member(<<"name">>, NullForm)>>, <<SP>>) }

NonObjectResponses ==
    { ListForm, <<Tok("["), Str(<<"a">>), Tok(","), Num(<<"7">>), Tok("]")>>,
      StrForm(<<"a">>), NumForm, NullForm }

UnparseableResponses ==
    { <<>>, <<Word("Sorry")>>, <<SP, Word("Sorry")>>,
      <<Tok("{"), Str(<<"name">>), Tok(":")>>,
      <<Tok("{"), Str(<<"name">>), Tok(":"), NullForm[1], Tok(","), Tok("}")>>,
      <<Tok("{"), Tok("}"), Tok("{"), Tok("}")>>,
      <<Tok("["), Str(<<"a">>), Tok(",")>> }

\* the texts T that are also sent wrapped in a code fence
FencedBodies ==
    { SchemaObject(OneField(<<"name">>, StrForm(<<"a">>))),
      PrettyObject(OneField(<<"dob">>, StrForm(<<"A">>))),
      Object(<<>>, <<SP>>), ListForm }

FenceOwnLinesTagged(T) == <<FENCE, Word("json"), NL>> \o T \o <<NL, FENCE>>
FenceOwnLines(T) == <<FENCE, NL>> \o T \o <<NL, FENCE>>
FenceSameLine(T) == <<FENCE>> \o T \o <<FENCE>>
FenceCloseSameLine(T) == <<FENCE, Word("json"), NL>> \o T \o <<FENCE>>
FenceUnclosed(T) == <<FENCE, NL>> \o T
Padded(T) == <<SP, NL>> \o T \o <<NL>>
PaddedFence(T) == <<NL>> \o FenceOwnLines(T) \o <<SP, NL>>

WrappedResponses ==
    UNION { {FenceOwnLinesTagged(T), FenceOwnLines(T), FenceSameLine(T),
             FenceCloseSameLine(T), FenceUnclosed(T), Padded(T), PaddedFence(T)}
            : T \in FencedBodies }

Responses ==
    SchemaResponses \cup OffSchemaResponses \cup NonObjectResponses
      \cup UnparseableResponses \cup WrappedResponses

\* the ways the request can fail inside the try block
RequestFailures == {"generate_content raised", "response.text raised"}

\* ------------------------------------------------------------- the steps
NoData == [isdict |-> FALSE, dict |-> EmptyDict, val |-> None]

EInit ==
    /\ apiKey \in BOOLEAN
    /\ pc = "idle"
    /\ raw_text = <<>>
    /\ response = <<>>
    /\ text = <<>>
    /\ parsed = NoData
    /\ data = EmptyDict
    /\ exc = ""
    /\ outcome = ""

\* a caller enters extract_fields_with_gemini(raw_text)
Call ==
    /\ pc = "idle"
    /\ \E t \in Texts : raw_text' = t
    /\ pc' = "get_model"
    /\ UNCHANGED <<apiKey, response, text, parsed, data, exc, outcome>>

\* model = _get_model(), outside any try block
GetModel ==
    /\ pc = "get_model"
    /\ IF apiKey
       THEN pc' = "request" /\ exc' = exc /\ outcome' = outcome
       ELSE pc' = "raised" /\ exc' = "RuntimeError" /\ outcome' = "no model"
    /\ UNCHANGED <<apiKey, raw_text, response, text, parsed, data>>

\* the try block: the request fails and the error mapping is returned
RequestFails ==
    /\ pc = "request"
    /\ \E e \in RequestFailures :
          /\ data' = ErrorResult(raw_text, e)
          /\ outcome' = e
    /\ pc' = "returned"
    /\ UNCHANGED <<apiKey, raw_text, response, text, parsed, exc>>

\* the try block: text = response.text.strip()
RequestAnswers ==
    /\ pc = "request"
    /\ \E r \in Responses :
          /\ response' = r
          /\ text' = PyStrip(r)
    /\ outcome' = "answered"
    /\ pc' = "fences"
    /\ UNCHANGED <<apiKey, raw_text, parsed, data, exc>>

\* if text.startswith(fence): ...
Fences ==
    /\ pc = "fences"
    /\ text' = StripFences(text)
    /\ pc' = "parse"
    /\ UNCHANGED <<apiKey, raw_text, response, parsed, data, exc, outcome>>

\* data = json.loads(text), or the fallback mapping
Parse ==
    /\ pc = "parse"
    /\ parsed' = LoadOrFallback(text)
    /\ pc' = "enforce"
    /\ UNCHANGED <<apiKey, raw_text, response, text, data, exc, outcome>>

\* data = _enforce_substring_constraints(data, raw_text);
\* data["raw_text"] = raw_text; return data.
\* data.get on a value that is no dict raises AttributeError.
Enforce ==
    /\ pc = "enforce"
    /\ IF parsed.isdict
       THEN /\ data' = DictSet(EnforceSubstringConstraints(parsed.dict, raw_text),
                               RawTextKey, Str(raw_text))
            /\ pc' = "returned"
            /\ exc' = exc
       ELSE /\ data' = data
            /\ pc' = "raised"
            /\ exc' = "AttributeError"
    /\ UNCHANGED <<apiKey, raw_text, response, text, parsed, outcome>>

\* the caller has the result, or the exception, and the call is over
Return ==
    /\ pc \in {"returned", "raised"}
    /\ pc' = "idle"
    /\ raw_text' = <<>>
    /\ response' = <<>>
    /\ text' = <<>>
    /\ parsed' = NoData
    /\ data' = EmptyDict
    /\ exc' = ""
    /\ outcome' = ""
    /\ UNCHANGED apiKey

\* ---------------------------------------------------------- pdf_fill.py
\* A file name is [dir, stem, ext]: Path.stem and Path.suffix of the name.
\* A PDF document is a sequence of pages; a page has the lines of text already
\* on it (each a sequence of words) and the text items inserted into it.
FileName(dir, stem, ext) == [dir |-> dir, stem |-> stem, ext |-> ext]
Page(lines) == [lines |-> lines, inserted |-> <<>>]
PdfFile(pages) == [kind |-> "pdf", pages |-> pages]
OtherFile(tag) == [kind |-> tag, pages |-> <<>>]

\* template_path as generate_filled_pdf sees it: None, or a path with the
\* file found there (kind "missing" when there is none)
NoTemplate == [given |-> FALSE, name |-> FileName("", <<>>, ""), file |-> OtherFile("missing")]
TemplateAt(name, file) == [given |-> TRUE, name |-> name, file |-> file]

\* str.lower() of a suffix
LowerExt(ext) == IF ext = ".PDF" THEN ".pdf" ELSE ext

\* template is not None and template.is_file() and template.suffix.lower() == ".pdf"
UsesTemplate(t) ==
    /\ t.given
    /\ t.file.kind # "missing"
    /\ LowerExt(t.name.ext) = ".pdf"

\* pdf_path
OutputName(t) ==
    IF UsesTemplate(t)
    THEN FileName("", t.name.stem \o <<"_filled">>, ".pdf")
    ELSE FileName("", <<"filled_form">>, ".pdf")

\* fields.get(key) if isinstance(fields, dict) else None
FieldOf(fields, key) == IF fields.isdict THEN DictGet(fields.dict, key) ELSE None

\* the truth value Python gives a field value
Truthy(v) ==
    \/ v.k = "str" /\ v.s # <<>>
    \/ v.k = "num" /\ v.s # <<"0">>

\* str(value)
PyStr(v) == v.s

\* label_map, in the order the dict literal lists it
LABEL_MAP ==
    << [label |-> <<"Full", "Name:">>, key |-> <<"name">>],
       [label |-> <<"Current", "Address:">>, key |-> <<"address">>],
       [label |-> <<"Telephone", "Number:">>, key |-> <<"phone">>],
       [label |-> <<"Email", "Address:">>, key |-> <<"email">>],
       [label |-> <<"Name:">>, key |-> <<"name">>],
       [label |-> <<"Date", "of", "Birth:">>, key |-> <<"dob">>] >>

\* the bounding box of words a..b of line li
Rect(li, a, b) ==
    [x0 |-> 72 + 50 * (a - 1), y0 |-> 100 + 20 * li,
     x1 |-> 72 + 50 * b, y1 |-> 110 + 20 * li]

RECURSIVE SearchFrom(_, _, _, _)
\* page.search_for(label): the boxes of the occurrences, in reading order
SearchFrom(lines, label, li, a) ==
    IF li > Len(lines) THEN <<>>
    ELSE IF a + Len(label) - 1 > Len(lines[li])
         THEN SearchFrom(lines, label, li + 1, 1)
         ELSE IF SubSeq(lines[li], a, a + Len(label) - 1) = label
              THEN <<Rect(li, a, a + Len(label) - 1)>>
                       \o SearchFrom(lines, label, li, a + 1)
              ELSE SearchFrom(lines, label, li, a + 1)

SearchFor(page, label) == SearchFrom(page.lines, label, 1, 1)

\* page.insert_text((x, y), text, fontsize=...)
TextItem(x, y, txt, size) == [x |-> x, y |-> y, text |-> txt, fontsize |-> size]

\* the body of the for loop over label_map for one entry: the text item it
\* inserts, none when it continues
LabelWriteLastRect(page, fields, entry) ==
    LET value == FieldOf(fields, entry.key)
        rects == SearchFor(page, entry.label)
    IN IF ~Truthy(value) \/ rects = <<>> THEN <<>>
       ELSE LET rect == rects[Len(rects)]
            IN <<[label |-> entry.label,
                  item |-> TextItem(rect.x1 + 8,
                                    rect.y0 + ((rect.y1 - rect.y0) * 7) \div 10,
                                    PyStr(value), 10)]>>

LabelWrite(page, fields, entry) ==
    LET value == FieldOf(fields, entry.key)
        rects == SearchFor(page, entry.label)
    IN IF ~Truthy(value) \/ rects = <<>> THEN <<>>
       ELSE LET rect == rects[1]
            IN <<[label |-> entry.label,
                  item |-> TextItem(rect.x1 + 8,
                                    rect.y0 + ((rect.y1 - rect.y0) * 7) \div 10,
                                    PyStr(value), 10)]>>

RECURSIVE LabelWritesFrom(_, _, _)
LabelWritesFrom(page, fields, i) ==
    IF i > Len(LABEL_MAP) THEN <<>>
    ELSE LabelWrite(page, fields, LABEL_MAP[i]) \o LabelWritesFrom(page, fields, i + 1)

\* the whole for loop
LabelWrites(page, fields) == LabelWritesFrom(page, fields, 1)

\* f"{value or ''}"
OrEmpty(v) == IF Truthy(v) THEN PyStr(v) ELSE <<>>

\* the lines of the summary page
SummaryLines(fields) ==
    << <<"Smart Form Filler - Extracted Data">>,
       <<>>,
       <<"Name: ">> \o OrEmpty(FieldOf(fields, <<"name">>)),
       <<"Date of Birth: ">> \o OrEmpty(FieldOf(fields, <<"dob">>)),
       <<"Address: ">> \o OrEmpty(FieldOf(fields, <<"address">>)),
       <<"Phone: ">> \o OrEmpty(FieldOf(fields, <<"phone">>)),
       <<"Email: ">> \o OrEmpty(FieldOf(fields, <<"email">>)) >>

\* the summary branch: text = "\n".join(lines); page.insert_text((72, 72), text, fontsize=12)
SummaryItem(fields) == TextItem(72, 72, PyJoin(<<"\n">>, SummaryLines(fields)), 12)

\* the document after the first branch: the template opened, or one new page
OpenedDoc(t) == IF UsesTemplate(t) THEN t.file.pages ELSE <<Page(<<>>)>>

\* the document with the items inserted into its first page
InsertAll(doc, items) ==
    [doc EXCEPT ![1] = [@ EXCEPT !.inserted = @ \o items]]

\* the items the second branch inserts
FilledItemsSummaryWhenNoMatch(t, fields) ==
    IF UsesTemplate(t) /\ LabelWrites(t.file.pages[1], fields) # <<>>
    THEN LET w == LabelWrites(t.file.pages[1], fields)
         IN [i \in 1..Len(w) |-> w[i].item]
    ELSE <<SummaryItem(fields)>>

FilledItems(t, fields) ==
    IF UsesTemplate(t)
    THEN LET w == LabelWrites(t.file.pages[1], fields)
         IN [i \in 1..Len(w) |-> w[i].item]
    ELSE <<SummaryItem(fields)>>

\* fitz.open(str(template)) raises on a file that is no PDF
OpenRaises(t) == UsesTemplate(t) /\ t.file.kind # "pdf"

\* generate_filled_pdf as one function: what it saves and where
GenerateFilledPdf(fields, t) ==
    [raised |-> OpenRaises(t),
     name |-> OutputName(t),
     file |-> PdfFile(InsertAll(OpenedDoc(t), FilledItems(t, fields)))]

\* ----------------------------------------------- inputs of the filler
\* a value of the key that is a non-empty string: the key's own name
Filled(key) == Str(key)
FillValues(key) == {None, Str(<<>>), Filled(key), Num(<<"0">>), Num(<<"7">>)}

AsFields(d) == [isdict |-> TRUE, dict |-> d]
NotADict == [isdict |-> FALSE, dict |-> EmptyDict]

FillFields ==
    {AsFields([k \in KeySet |-> IF k = key THEN v ELSE None]) :
        key \in KeySet, v \in UNION {FillValues(k) : k \in KeySet}}
      \cup {AsFields([k \in KeySet |-> IF k \in on THEN Filled(k) ELSE None]) :
               on \in SUBSET KeySet}
      \cup {AsFields(EmptyDict), NotADict}

LabelLines == {LABEL_MAP[i].label : i \in 1..Len(LABEL_MAP)}
PageLines == LabelLines \cup {<<"Signature:">>, <<"Name:", "Name:">>}

TemplatePages ==
    {Page(ls) : ls \in UNION {[1..n -> PageLines] : n \in 0..MaxPageLines}}

TemplateDocs ==
    {<<p>> : p \in TemplatePages}
      \cup {<<Page(<<>>), Page(<<<<"Name:">>>>)>>, <<Page(<<<<"Name:">>>>), Page(<<<<"Date", "of", "Birth:">>>>)>>}

TemplateNames ==
    {FileName("", <<"f">>, ext) : ext \in {".pdf", ".PDF", ".png", ""}}

Templates ==
    {NoTemplate}
      \cup {TemplateAt(n, PdfFile(d)) : n \in TemplateNames, d \in TemplateDocs}
      \cup {TemplateAt(n, OtherFile(kd)) : n \in TemplateNames, kd \in {"missing", "bytes"}}

\* --------------------------------------------- generate_filled_pdf steps
GInit ==
    /\ gpc = "idle"
    /\ gfields = NotADict
    /\ gtemplate = NoTemplate
    /\ gdoc = <<>>
    /\ gwrites = <<>>

\* a caller enters generate_filled_pdf(fields, output_dir, template_path)
GCall ==
    /\ gpc = "idle"
    /\ \E f \in FillFields : gfields' = f
    /\ \E t \in Templates : gtemplate' = t
    /\ gpc' = "open"
    /\ UNCHANGED <<gdoc, gwrites>>

\* the first if: fitz.open(template) and doc[0], or fitz.open() and new_page()
GOpen ==
    /\ gpc = "open"
    /\ IF OpenRaises(gtemplate)
       THEN gpc' = "raised" /\ gdoc' = gdoc
       ELSE gpc' = "fill" /\ gdoc' = OpenedDoc(gtemplate)
    /\ UNCHANGED <<gfields, gtemplate, gwrites>>

\* the second if: the label loop on the template, or the summary text
GFill ==
    /\ gpc = "fill"
    /\ gwrites' = IF UsesTemplate(gtemplate)
                  THEN LabelWrites(gdoc[1], gfields)
                  ELSE <<>>
    /\ gdoc' = InsertAll(gdoc, FilledItems(gtemplate, gfields))
    /\ gpc' = "done"
    /\ UNCHANGED <<gfields, gtemplate>>

\* doc.save(str(pdf_path)), doc.close(), return str(pdf_path); or the
\* exception of fitz.open leaves the function
GReturn ==
    /\ gpc \in {"done", "raised"}
    /\ gpc' = "idle"
    /\ gfields' = NotADict
    /\ gtemplate' = NoTemplate
    /\ gdoc' = <<>>
    /\ gwrites' = <<>>

\* ------------------------------------------------- main.py and utils.py
\* save_upload_file: the name is uuid4().hex plus the suffix of the client's
\* file name.  The n-th name drawn is n hex digits f, distinct from all
\* drawn before.
UuidHex(n) == [i \in 1..n |-> "f"]

SaveUploadFile(files, dir, n, ext, file) ==
    DictSet(files, FileName(dir, UuidHex(n), ext), file)

UploadExts == {".pdf", ".png"}
UploadFiles == {PdfFile(<<Page(<< <<"Name:">> >>)>>), OtherFile("bytes")}

\* the fields a /fill request carries
RequestFields ==
    { AsFields([k \in KeySet |-> IF k = <<"name">> THEN Filled(k) ELSE None]),
      AsFields([k \in KeySet |-> IF k = <<"dob">> THEN Filled(k) ELSE None]) }

\* template_path of fill_pdf: the candidate if candidate.is_file(), else None
TemplatePath(files, given, name) ==
    IF given /\ name \in DOMAIN files THEN TemplateAt(name, files[name]) ELSE NoTemplate

FInit ==
    /\ fs = EmptyDict
    /\ served = <<>>
    /\ uploaded = <<>>

\* POST /process: the form image is saved under uploads/, each supporting
\* document under uploads/docs/; OCR and extraction write no file
ProcessForm ==
    /\ Len(uploaded) < MaxUploads
    /\ \E ext \in UploadExts, file \in UploadFiles, withDoc \in BOOLEAN :
          LET n == Len(uploaded) + 1
              form == [name |-> FileName("", UuidHex(n), ext), file |-> file]
              doc == [name |-> FileName("docs", UuidHex(n + 1), ext), file |-> file]
              fs1 == SaveUploadFile(fs, "", n, ext, file)
          IN IF withDoc /\ n + 1 <= MaxUploads
             THEN /\ fs' = SaveUploadFile(fs1, "docs", n + 1, ext, file)
                  /\ uploaded' = uploaded \o <<form, doc>>
             ELSE /\ fs' = fs1
                  /\ uploaded' = Append(uploaded, form)
    /\ UNCHANGED served

\* POST /fill: generate_filled_pdf writes into uploads/ and its file name is
\* returned; an exception is answered with status 500 and nothing is written
FillPdf ==
    /\ Len(served) < MaxFills
    /\ \E fields \in RequestFields, given \in BOOLEAN,
          name \in (DOMAIN fs) \cup {FileName("", <<"nosuchfile">>, ".pdf")} :
          LET out == GenerateFilledPdf(fields, TemplatePath(fs, given, name))
          IN IF out.raised
             THEN UNCHANGED <<fs, served>>
             ELSE /\ fs' = DictSet(fs, out.name, out.file)
                  /\ served' = Append(served, [name |-> out.name, file |-> out.file])
    /\ UNCHANGED uploaded

\* ------------------------------------------------------- specifications
\* the extractor at rest, with the API key set
EIdle ==
    /\ apiKey = TRUE
    /\ pc = "idle"
    /\ raw_text = <<>>
    /\ response = <<>>
    /\ text = <<>>
    /\ parsed = NoData
    /\ data = EmptyDict
    /\ exc = ""
    /\ outcome = ""

\* extract_fields_with_gemini, called again and again
Init == EInit /\ GInit /\ FInit

Next ==
    \/ Call /\ UNCHANGED <<gvars, fvars>>
    \/ GetModel /\ UNCHANGED <<gvars, fvars>>
    \/ RequestFails /\ UNCHANGED <<gvars, fvars>>
    \/ RequestAnswers /\ UNCHANGED <<gvars, fvars>>
    \/ Fences /\ UNCHANGED <<gvars, fvars>>
    \/ Parse /\ UNCHANGED <<gvars, fvars>>
    \/ Enforce /\ UNCHANGED <<gvars, fvars>>
    \/ Return /\ UNCHANGED <<gvars, fvars>>

Spec == Init /\ [][Next]_vars

\* generate_filled_pdf, called again and again
InitPdf == EIdle /\ GInit /\ FInit

NextPdf ==
    \/ GCall /\ UNCHANGED <<evars, fvars>>
    \/ GOpen /\ UNCHANGED <<evars, fvars>>
    \/ GFill /\ UNCHANGED <<evars, fvars>>
    \/ GReturn /\ UNCHANGED <<evars, fvars>>

SpecPdf == InitPdf /\ [][NextPdf]_vars

\* the /process and /fill requests on one uploads directory
InitFS == EIdle /\ GInit /\ FInit

NextFS ==
    \/ ProcessForm /\ UNCHANGED <<evars, gvars>>
    \/ FillPdf /\ UNCHANGED <<evars, gvars>>

SpecFS == InitFS /\ [][NextFS]_vars

\* ================================================================ claims
\* The substring invariant as the specification words it, written without
\* the operators that model the code: lower-case, every run of white space
\* one space and none at either end, then occurrence as a contiguous piece.
RECURSIVE CollapseFrom(_, _, _)
CollapseFrom(s, i, out) ==
    IF i > Len(s)
    THEN IF out # <<>> /\ out[Len(out)] = " " THEN SubSeq(out, 1, Len(out) - 1) ELSE out
    ELSE IF s[i] \in {" ", "\n"}
         THEN IF out = <<>> \/ out[Len(out)] = " "
              THEN CollapseFrom(s, i + 1, out)
              ELSE CollapseFrom(s, i + 1, Append(out, " "))
         ELSE CollapseFrom(s, i + 1,
                  Append(out, CASE s[i] = "A" -> "a" [] s[i] = "J" -> "j"
                                [] s[i] = "S" -> "s" [] s[i] = "T" -> "t"
                                [] OTHER -> s[i]))

Normalised(s) == CollapseFrom(s, 1, <<>>)

Occurs(sub, s) ==
    \E i \in 0..Len(s) : \E j \in i..Len(s) : SubSeq(s, i + 1, j) = sub

Done == pc \in {"returned", "raised"}
Answered == Done /\ outcome = "answered"
AllFiveNull(d) == \A k \in KeySet : k \in DOMAIN d /\ d[k] = None
HasFence(r) == \E i \in 1..Len(r) : r[i].k = "fence"

\* C1: in every result that is returned, each of name, dob, address, phone,
\* email that is not null is a string whose normalised form occurs in the
\* normalised source text.
C1_NonNullValuesOccurInSource ==
    pc = "returned" =>
        \A k \in KeySet :
            (k \in DOMAIN data /\ data[k] # None) =>
                /\ data[k].k = "str"
                /\ Occurs(Normalised(data[k].s), Normalised(raw_text))

\* C2 as claimed: whichever way the model step fails (no model, the request
\* raises, the response has no text) the call returns the error mapping.
C2_NeverRaisesOnModelFailure ==
    outcome \in RequestFailures \cup {"no model"} =>
        /\ pc = "returned"
        /\ AllFiveNull(data)
        /\ DictGet(data, RawTextKey) = Str(raw_text)
        /\ ErrorKey \in DOMAIN data

\* C2 as amended: a failure of the request inside the try block returns the
\* error mapping (five nulls, raw_text the input, an error string); when the
\* model cannot be obtained the call raises RuntimeError and returns nothing.
C2_RequestFailureReturnsErrorMapping ==
    /\ outcome \in RequestFailures =>
          /\ pc = "returned"
          /\ AllFiveNull(data)
          /\ DictGet(data, RawTextKey) = Str(raw_text)
          /\ ErrorKey \in DOMAIN data
          /\ IsStr(data[ErrorKey])
          /\ DOMAIN data = KeySet \cup {RawTextKey, ErrorKey}
    /\ outcome = "no model" => (pc = "raised" /\ exc = "RuntimeError")
    /\ (pc = "raised" /\ exc = "RuntimeError") => (outcome = "no model" /\ ~apiKey)

C2_Witness ==
    /\ outcome \in RequestFailures
    /\ pc = "returned"
    /\ Len(raw_text) > 0
    /\ raw_text[1] \in {" ", "\n"}

\* a response that is, as it stands, a JSON object of exactly the five keys
\* with string or null values
IsSchemaObject(r) ==
    LET j == JsonLoads(r)
    IN /\ j.ok
       /\ j.isdict
       /\ DOMAIN j.dict = KeySet
       /\ \A k \in KeySet : j.dict[k].k \in {"null", "str"}

\* C3: a response that is not a well-formed object of the five-key schema
\* gives a returned result with the five fields null and _raw_model_output
\* holding the response text (compared without its surrounding white space).
C3_MalformedGivesNullsAndRawOutput ==
    (Answered /\ ~HasFence(response) /\ ~IsSchemaObject(response)) =>
        /\ pc = "returned"
        /\ AllFiveNull(data)
        /\ DictGet(data, RawOutputKey) = Str(Render(PyStrip(response)))

C5_EmptySourceGivesAllNull ==
    (Answered /\ raw_text = <<>>) => (pc = "returned" /\ AllFiveNull(data))

\* C8: a returned result has the five keys, each null or a string, raw_text
\* equal to the input, and no key besides these and the two markers.
C8_ResultShape ==
    pc = "returned" =>
        /\ KeySet \subseteq DOMAIN data
        /\ \A k \in KeySet \cap DOMAIN data : data[k].k \in {"null", "str"}
        /\ DictGet(data, RawTextKey) = Str(raw_text)
        /\ DOMAIN data \subseteq KeySet \cup {RawTextKey, ErrorKey, RawOutputKey}

\* C9: a response that is T inside a code fence (markers on their own lines,
\* or on the same line as T) ends the call exactly as the response T does.
C9_FenceIsTransparent ==
    Answered =>
        \A T \in FencedBodies :
            response \in {FenceOwnLinesTagged(T), FenceOwnLines(T), FenceSameLine(T)} =>
                [pc |-> pc, exc |-> exc, data |-> data] = ExtractAnswer(T, raw_text)

\* ------------------------------------------------- the template filler
GDone == gpc = "done"

\* a template that is an existing file named *.pdf / a valid PDF at that
GivenPdfName ==
    /\ gtemplate.given
    /\ gtemplate.file.kind # "missing"
    /\ gtemplate.name.ext \in {".pdf", ".PDF"}
ValidTemplate == GivenPdfName /\ gtemplate.file.kind = "pdf"

FixedLabels ==
    { <<"Full", "Name:">>, <<"Current", "Address:">>, <<"Telephone", "Number:">>,
      <<"Email", "Address:">>, <<"Name:">>, <<"Date", "of", "Birth:">> }

\* the field each label stands for
CorrespondingKey(label) ==
    CASE label = <<"Full", "Name:">> -> <<"name">>
      [] label = <<"Current", "Address:">> -> <<"address">>
      [] label = <<"Telephone", "Number:">> -> <<"phone">>
      [] label = <<"Email", "Address:">> -> <<"email">>
      [] label = <<"Name:">> -> <<"name">>
      [] label = <<"Date", "of", "Birth:">> -> <<"dob">>

\* the places (line, first word) where a label stands on a page, and the first
Occurrences(page, label) ==
    {<<li, a>> \in (1..Len(page.lines)) \X (1..3) :
        /\ a + Len(label) - 1 <= Len(page.lines[li])
        /\ SubSeq(page.lines[li], a, a + Len(label) - 1) = label}
Found(page, label) == Occurrences(page, label) # {}
FirstOccurrence(page, label) ==
    CHOOSE o \in Occurrences(page, label) :
        \A q \in Occurrences(page, label) :
            o[1] < q[1] \/ (o[1] = q[1] /\ o[2] <= q[2])

FieldValue(key) ==
    IF gfields.isdict /\ key \in DOMAIN gfields.dict THEN gfields.dict[key] ELSE None

WritesFor(label) == {i \in 1..Len(gwrites) : gwrites[i].label = label}

\* the text item that puts value v next to the first occurrence of a label
NextToFirst(page, label, v) ==
    LET o == FirstOccurrence(page, label)
        box == Rect(o[1], o[2], o[2] + Len(label) - 1)
    IN [x |-> box.x1 + 8, y |-> box.y0 + 7, text |-> v.s, fontsize |-> 10]

\* the saved document is the one-page summary naming the five fields, each
\* non-empty string value after its caption
Captions ==
    { <<"Name: ", <<"name">> >>, <<"Date of Birth: ", <<"dob">> >>,
      <<"Address: ", <<"address">> >>, <<"Phone: ", <<"phone">> >>,
      <<"Email: ", <<"email">> >> }
IsSummary(doc) ==
    /\ Len(doc) = 1
    /\ doc[1].lines = <<>>
    /\ Len(doc[1].inserted) = 1
    /\ \A c \in Captions :
          LET v == FieldValue(c[2])
              shown == IF v.k = "str" THEN v.s ELSE <<>>
              txt == doc[1].inserted[1].text \o <<"\n">>
          IN /\ Occurs(<<"\n", c[1]>>, txt)
             /\ v.k = "str" => Occurs(<<"\n", c[1]>> \o shown \o <<"\n">>, txt)

NoLabelMatched == \A label \in FixedLabels : ~Found(gtemplate.file.pages[1], label)

\* C6 as claimed: the summary is what is saved both without a usable
\* template and with a valid template on which no label is matched.
C6_SummaryWithoutTemplateOrMatch ==
    (GDone /\ (~ValidTemplate \/ NoLabelMatched)) => IsSummary(gdoc)

\* C6 as amended: the summary is saved exactly when no existing file named
\* *.pdf is given as the template; with a valid template on which no label is
\* matched the template's pages are saved as they are, with no summary; an
\* existing *.pdf file that is no PDF makes the call raise.
C6_SummaryOnlyWithoutTemplate ==
    /\ (GDone /\ ~GivenPdfName) => IsSummary(gdoc)
    /\ (GDone /\ GivenPdfName) =>
          /\ ValidTemplate
          /\ \A i \in 1..Len(gdoc[1].inserted) :
                gdoc[1].inserted[i].text # SummaryItem(gfields).text
          /\ NoLabelMatched => gdoc = gtemplate.file.pages
    /\ gpc = "raised" <=> (GivenPdfName /\ ~ValidTemplate /\ gpc \notin {"idle", "open"})

C6_Witness ==
    /\ GDone
    /\ ValidTemplate
    /\ NoLabelMatched
    /\ gtemplate.file.pages[1].lines # <<>>
    /\ FieldValue(<<"name">>) = Str(<<"name">>)
    /\ gdoc = gtemplate.file.pages

NonNull(v) == v # None
NonEmpty(v) == v # None /\ v # Str(<<>>) /\ v # Num(<<"0">>)

\* what the filler wrote, label by label, when "has a value" means not null
\* (strict) or not null, not empty and not zero
WritesExactly(strict) ==
    LET page == gtemplate.file.pages[1]
    IN /\ \A label \in FixedLabels :
             LET v == FieldValue(CorrespondingKey(label))
             IN IF Found(page, label) /\ (IF strict THEN NonNull(v) ELSE NonEmpty(v))
                THEN /\ Cardinality(WritesFor(label)) = 1
                     /\ \A i \in WritesFor(label) :
                           gwrites[i].item = NextToFirst(page, label, v)
                ELSE WritesFor(label) = {}
       /\ \A i \in 1..Len(gwrites) : gwrites[i].label \in FixedLabels
       /\ Len(gdoc) = Len(gtemplate.file.pages)
       /\ gdoc[1].lines = page.lines
       /\ gdoc[1].inserted = [i \in 1..Len(gwrites) |-> gwrites[i].item]
       /\ \A n \in 2..Len(gdoc) : gdoc[n] = gtemplate.file.pages[n]

\* C7 as claimed: on a valid template each label of the fixed set gets its
\* field's value written once, next to its first occurrence on the first
\* page, exactly when the label is found there and the value is not null;
\* nothing else is written.
C7_WritesIffFoundAndNonNull ==
    (GDone /\ ValidTemplate) => WritesExactly(TRUE)

\* C7 as amended: ... exactly when the label is found there and the value is
\* not null, not the empty string and not zero.
C7_WritesIffFoundAndNonEmpty ==
    (GDone /\ ValidTemplate) => WritesExactly(FALSE)

C7_Witness ==
    /\ GDone
    /\ ValidTemplate
    /\ Cardinality(Occurrences(gtemplate.file.pages[1], <<"Name:">>)) >= 2
    /\ FieldValue(<<"name">>) = Str(<<"name">>)
    /\ Cardinality(WritesFor(<<"Name:">>)) = 1

\* ------------------------------------------------ the uploads directory
\* C10: the file named in the answer to a /fill request still holds what was
\* generated for that request, and every uploaded file still holds what was
\* uploaded, whatever requests followed.
C10_RequestsDoNotInterfere ==
    /\ \A i \in 1..Len(served) :
          served[i].name \in DOMAIN fs /\ fs[served[i].name] = served[i].file
    /\ \A i \in 1..Len(uploaded) :
          uploaded[i].name \in DOMAIN fs /\ fs[uploaded[i].name] = uploaded[i].file

====
